---- MODULE Spec2Model ----
(***************************************************************************)
(* A model of the uptime-kuma checker pipeline and of its orchestrator.     *)
(*                                                                         *)
(* server/monitor-types/tailscale-ping.js: TailscalePing.check runs        *)
(* `tailscale ping <hostname>` as a child process under a timeout and      *)
(* parses the standard output into the heartbeat it was handed.            *)
(*                                                                         *)
(* server/model/heartbeat.js: the two JSON views of a heartbeat.           *)
(*                                                                         *)
(* server/uptime-kuma-server.js: UptimeKumaServer, the single object that  *)
(* owns the checker registry and the maintenance registry, pushes the      *)
(* monitor and maintenance lists to the users' rooms, resolves the         *)
(* timezone and starts and stops the nscd service.                         *)
(*                                                                         *)
(* Text is modelled as a sequence of one-character strings, so that        *)
(* String.split, String.includes and parseInt are computed the way the     *)
(* JavaScript runtime computes them.  The child process writes its output  *)
(* in chunks drawn from Alphabet; a chunk is a piece of text the real      *)
(* tool prints (a marker phrase, a number, a line break).                  *)
(*                                                                         *)
(* Each part of the program has a specification of its own (Spec,          *)
(* SpecHeartbeat, SpecTimezone, SpecLifecycle, SpecLists); the variables   *)
(* of the other parts stay at rest in it.                                  *)
(***************************************************************************)
EXTENDS Integers, Sequences, FiniteSets, TLC

VARIABLES
    \* TailscalePing.check
    pc,         \* where check() is: "idle", "awaitExec", "settled", "done"
    monitor,    \* the monitor passed to check(): [hostname, interval]
    heartbeat,  \* the heartbeat passed to check(): [status, ping, msg]
    hb0,        \* the heartbeat as the caller pre-set it, on entry to check()
    child,      \* the child process started by exec()
    promise,    \* the promise returned by runTailscalePing()
    outcome,    \* how check() ended: [kind, err], and the lines the parser read
    \* Heartbeat
    bean,       \* a heartbeat bean: its columns
    fullView,   \* what toJSON() returned for it, once called
    publicView, \* what toPublicJSON() returned for it, once called
    \* the process and its collaborators
    env,        \* process.env: [TZ, UPTIME_KUMA_IS_CONTAINER]
    settings,   \* the persisted settings: [serverTimezone, nscd, trustProxy]
    \* UptimeKumaServer: timezone
    guess,      \* what dayjs.tz.guess() yields on this system
    tzDefault,  \* the default timezone of dayjs, set by dayjs.tz.setDefault
    tzGot,      \* the last getTimezone() call: what it read and returned
    tzCall,     \* the setTimezone() call under way, or the last one
    \* UptimeKumaServer: the instance, start() and stop()
    instance,         \* UptimeKumaServer.instance: an object, or 0 for null
    monitorTypeList,  \* UptimeKumaServer.monitorTypeList: name -> object, 0 if none
    objects,          \* how many objects `new` has created
    returned,         \* what the getInstance() calls returned, in order
    service,          \* the nscd service: "stopped" or "running"
    nscdCall,         \* the last start() or stop() call and what it did
    \* UptimeKumaServer: the lists
    monitorRows,      \* the rows of table monitor
    maintenanceRows,  \* the ids of the rows of table maintenance
    loads,            \* the loadMaintenanceList() calls: where each is
    maintenanceList,  \* this.maintenanceList: id -> bean, NoBean if none
    running,          \* the maintenance beans whose run() was called
    sent,             \* the last send call: what it returned and emitted
    got,              \* the last getMaintenance() call and what it returned
    \* UptimeKumaServer: getClientIP
    conn,             \* socket.client.conn: [remoteAddress, forwardedFor, realIp]
    clientIP,         \* the last getClientIP() call and what it returned
    \* TailscalePing.check, called for two monitors at a time
    runs              \* per call, what pc .. outcome are for the one call

checkerVars == <<pc, monitor, heartbeat, hb0, child, promise, outcome>>

heartbeatVars == <<bean, fullView, publicView>>

processVars == <<env, settings>>

timezoneVars == <<guess, tzDefault, tzGot, tzCall>>

lifecycleVars == <<instance, monitorTypeList, objects, returned, service, nscdCall>>

listsVars == <<monitorRows, maintenanceRows, loads, maintenanceList, running, sent, got>>

clientVars == <<conn, clientIP>>

\* what the checker leaves alone
serverVars ==
    <<heartbeatVars, processVars, timezoneVars, lifecycleVars, listsVars, clientVars, runs>>

vars == <<checkerVars, serverVars>>

---------------------------------------------------------------------------
(* Bounds of the model. *)

\* the most chunks the child writes to standard output
MaxOut == 4

---------------------------------------------------------------------------
(* src/util: the status values. *)

DOWN == 0

UP == 1

PENDING == 2

MAINTENANCE == 3

---------------------------------------------------------------------------
(* Text. *)

NL == "\n"

\* The chunks of text the child process can write.
Alphabet ==
    { "pong from", " in ", "5ms", "1", "timed out", "no matching peer",
      "is local Tailscale IP", NL }

\* The characters of a chunk.
Expand(chunk) ==
    CASE chunk = "pong from" -> <<"p", "o", "n", "g", " ", "f", "r", "o", "m">>
      [] chunk = " in " -> <<" ", "i", "n", " ">>
      [] chunk = "5ms" -> <<"5", "m", "s">>
      [] chunk = "1" -> <<"1">>
      [] chunk = "timed out" -> <<"t", "i", "m", "e", "d", " ", "o", "u", "t">>
      [] chunk = "no matching peer" ->
            <<"n", "o", " ", "m", "a", "t", "c", "h", "i", "n", "g", " ",
              "p", "e", "e", "r">>
      [] chunk = "is local Tailscale IP" ->
            <<"i", "s", " ", "l", "o", "c", "a", "l", " ", "T", "a", "i", "l",
              "s", "c", "a", "l", "e", " ", "I", "P">>
      [] chunk = "x" -> <<"x">>
      [] chunk = " " -> <<" ">>
      [] chunk = NL -> <<NL>>
      [] chunk = "old" -> <<"o", "l", "d">>
      [] chunk = "h1" -> <<"h", "1">>
      [] chunk = "h2" -> <<"h", "2">>

RECURSIVE Flatten(_)
\* The text made of a sequence of chunks.
Flatten(chunks) ==
    IF chunks = <<>> THEN <<>>
    ELSE Expand(Head(chunks)) \o Flatten(Tail(chunks))

\* sub occurs in s at position i
OccursAt(s, sub, i) ==
    /\ i + Len(sub) - 1 <= Len(s)
    /\ \A k \in 1..Len(sub) : s[i + k - 1] = sub[k]

\* String.prototype.includes
Includes(s, sub) == \E i \in 1..(Len(s) - Len(sub) + 1) : OccursAt(s, sub, i)

RECURSIVE SplitFrom(_, _, _)
\* the pieces of s from position i on: the text up to the first occurrence
\* of sep at or after i, then the pieces from the end of that occurrence on
SplitFrom(s, sep, i) ==
    LET found == {j \in i..Len(s) : OccursAt(s, sep, j)}
    IN  IF found = {} THEN <<SubSeq(s, i, Len(s))>>
        ELSE LET j == CHOOSE m \in found : \A o \in found : m <= o
             IN  <<SubSeq(s, i, j - 1)>> \o SplitFrom(s, sep, j + Len(sep))

\* String.prototype.split with a non-empty separator: the pieces between the
\* occurrences of sep, found left to right and not overlapping.
Split(s, sep) == SplitFrom(s, sep, 1)

---------------------------------------------------------------------------
(* Numbers: the values heartbeat.ping can hold. *)

Null == [tag |-> "null", n |-> 0]

NaN == [tag |-> "NaN", n |-> 0]

Num(k) == [tag |-> "num", n |-> k]

Digits == {"0", "1", "2", "3", "4", "5", "6", "7", "8", "9"}

DigitVal(c) ==
    CASE c = "0" -> 0 [] c = "1" -> 1 [] c = "2" -> 2 [] c = "3" -> 3
      [] c = "4" -> 4 [] c = "5" -> 5 [] c = "6" -> 6 [] c = "7" -> 7
      [] c = "8" -> 8 [] c = "9" -> 9

WhiteSpace == {" ", NL}

RECURSIVE SkipWhite(_)
SkipWhite(s) ==
    IF s # <<>> /\ Head(s) \in WhiteSpace THEN SkipWhite(Tail(s)) ELSE s

RECURSIVE LeadingDigits(_)
LeadingDigits(s) ==
    IF s # <<>> /\ Head(s) \in Digits
    THEN <<Head(s)>> \o LeadingDigits(Tail(s))
    ELSE <<>>

RECURSIVE DecimalValue(_, _)
DecimalValue(ds, acc) ==
    IF ds = <<>> THEN acc
    ELSE DecimalValue(Tail(ds), 10 * acc + DigitVal(Head(ds)))

\* parseInt(string) with no radix: leading white space is skipped, an optional
\* sign is read, then the longest run of decimal digits; no digit gives NaN.
\* (No chunk of Alphabet holds "0", so the "0x" prefix never occurs.)
ParseInt(s) ==
    LET t == SkipWhite(s)
        signed == t # <<>> /\ Head(t) \in {"+", "-"}
        body == IF signed THEN Tail(t) ELSE t
        ds == LeadingDigits(body)
    IN  IF ds = <<>> THEN NaN
        ELSE IF signed /\ Head(t) = "-" THEN Num(0 - DecimalValue(ds, 0))
        ELSE Num(DecimalValue(ds, 0))

---------------------------------------------------------------------------
(* JavaScript errors and the values a promise is rejected with. *)

NoError == [name |-> "", message |-> <<>>]

\* new Error(message)
JsError(message) == [name |-> "Error", message |-> message]

\* the TypeError the runtime throws when a method is called on undefined
TypeError(message) == [name |-> "TypeError", message |-> message]

\* reject("..."): the promise is rejected with a plain string
JsString(message) == [name |-> "", message |-> message]

\* `${err}`: an Error prints as "<name>: <message>", a string as itself
ErrToString(err) ==
    IF err.name = "" THEN err.message ELSE <<err.name, ": ">> \o err.message

\* Quoted with the line left out of the message
Quoted_NoLine(prefix, line) == <<prefix, "\"", "\"">>

\* `<prefix>"${line}"`
Quoted(prefix, line) == <<prefix, "\"">> \o line \o <<"\"">>

---------------------------------------------------------------------------
(* TailscalePing.parseTailscaleOutput, tailscale-ping.js lines 69-90. *)

\* line 75: line.split(" in ")[1] is undefined when the line holds no " in "
HasTimeToken(line) == Len(Split(line, Expand(" in "))) >= 2

\* TimeToken reading the piece after the last " in " instead of the first
TimeToken_LastPiece(line) ==
    LET parts == Split(line, Expand(" in "))
    IN  Split(parts[Len(parts)], <<" ">>)[1]

\* line 75: line.split(" in ")[1].split(" ")[0]
TimeToken(line) == Split(Split(line, Expand(" in "))[2], <<" ">>)[1]

\* lines 74-78: the branch taken for a line that includes "pong from".  The
\* status is assigned before the time is read, so the TypeError of line 75
\* leaves the heartbeat with the new status.
PongBranch(line, hb) ==
    LET hb1 == [hb EXCEPT !.status = UP]
    IN  IF ~HasTimeToken(line)
        THEN [step |-> "throw", hb |-> hb1,
              err |-> TypeError(<<"Cannot read properties of undefined (reading 'split')">>)]
        ELSE [step |-> "break",
              hb |-> [hb1 EXCEPT !.ping = ParseInt(TimeToken(line)), !.msg = line],
              err |-> NoError]

\* Branch with the tests for "no matching peer" and the local-IP phrase in
\* the other order
Branch_LocalFirst(line) ==
    IF Includes(line, Expand("pong from")) THEN "pong from"
    ELSE IF Includes(line, Expand("timed out")) THEN "timed out"
    ELSE IF Includes(line, Expand("is local Tailscale IP")) THEN "is local Tailscale IP"
    ELSE IF Includes(line, Expand("no matching peer")) THEN "no matching peer"
    ELSE IF line # <<>> THEN "unexpected"
    ELSE "blank"

\* Branch without the test that lets a blank line pass
Branch_BlankUnexpected(line) ==
    IF Includes(line, Expand("pong from")) THEN "pong from"
    ELSE IF Includes(line, Expand("timed out")) THEN "timed out"
    ELSE IF Includes(line, Expand("no matching peer")) THEN "no matching peer"
    ELSE IF Includes(line, Expand("is local Tailscale IP")) THEN "is local Tailscale IP"
    ELSE "unexpected"

\* lines 73, 79, 82, 84, 86: which branch of the if-else chain a line takes,
\* named by the text the branch looks for
Branch(line) ==
    IF Includes(line, Expand("pong from")) THEN "pong from"
    ELSE IF Includes(line, Expand("timed out")) THEN "timed out"
    ELSE IF Includes(line, Expand("no matching peer")) THEN "no matching peer"
    ELSE IF Includes(line, Expand("is local Tailscale IP")) THEN "is local Tailscale IP"
    ELSE IF line # <<>> THEN "unexpected"
    ELSE "blank"

\* lines 80, 83, 85, 87: throw new Error(`<prefix>"${line}"`)
Throw(prefix, line, hb) ==
    [step |-> "throw", hb |-> hb, err |-> JsError(Quoted(prefix, line))]

\* lines 73-88: what the loop body does with one line
ScanLine(line, hb) ==
    LET b == Branch(line)
    IN  CASE b = "pong from" -> PongBranch(line, hb)
          [] b = "timed out" -> Throw("Ping timed out: ", line, hb)
          [] b = "no matching peer" ->
                Throw("Nonexistant or inaccessible due to ACLs: ", line, hb)
          [] b = "is local Tailscale IP" ->
                Throw("Tailscale only works if used on other machines: ", line, hb)
          [] b = "unexpected" -> Throw("Unexpected output: ", line, hb)
          [] b = "blank" -> [step |-> "continue", hb |-> hb, err |-> NoError]

\* ScanLines leaving the loop at a blank line instead of going on
ScanLines_FirstOnly(lines, i, hb) ==
    LET r == ScanLine(lines[i], hb)
    IN  [threw |-> r.step = "throw", hb |-> r.hb, err |-> r.err, scanned |-> i]

RECURSIVE ScanLines_NoBreak(_, _, _)
\* ScanLines going on to the next line after a "pong from" line
ScanLines_NoBreak(lines, i, hb) ==
    IF i > Len(lines)
    THEN [threw |-> FALSE, hb |-> hb, err |-> NoError, scanned |-> Len(lines)]
    ELSE LET r == ScanLine(lines[i], hb)
         IN  IF r.step = "throw"
             THEN [threw |-> TRUE, hb |-> r.hb, err |-> r.err, scanned |-> i]
             ELSE ScanLines_NoBreak(lines, i + 1, r.hb)

RECURSIVE ScanLines(_, _, _)
\* lines 72-89: the for loop over the lines, from line i on
ScanLines(lines, i, hb) ==
    IF i > Len(lines)
    THEN [threw |-> FALSE, hb |-> hb, err |-> NoError, scanned |-> Len(lines)]
    ELSE LET r == ScanLine(lines[i], hb)
         IN  CASE r.step = "continue" -> ScanLines(lines, i + 1, r.hb)
               [] r.step = "break" ->
                    [threw |-> FALSE, hb |-> r.hb, err |-> NoError, scanned |-> i]
               [] r.step = "throw" ->
                    [threw |-> TRUE, hb |-> r.hb, err |-> r.err, scanned |-> i]

\* lines 69-90: the heartbeat after the call, whether it threw and what,
\* and how many lines the loop looked at
ParseTailscaleOutput(tailscaleOutput, hb) ==
    ScanLines(Split(tailscaleOutput, <<NL>>), 1, hb)

---------------------------------------------------------------------------
(* TailscalePing.runTailscalePing, tailscale-ping.js lines 39-60, and the   *)
(* child process that child_process.exec starts for it.                    *)

\* line 40: `tailscale ping ${hostname}`
Command(hostname) == <<"tailscale ping ">> \o hostname

\* RunTimeout without the factor 0.8
RunTimeout_NoRatio(interval) == interval * 1000

\* line 45: interval * 1000 * 0.8, in milliseconds.  For every whole number
\* of seconds up to MAX_INTERVAL_SECOND the floating-point product is the
\* whole number computed here.
RunTimeout(interval) == (interval * 1000 * 8) \div 10

NoChild ==
    [state |-> "none", cmd |-> <<>>, timeout |-> 0, timer |-> "none",
     stdout |-> <<>>, stderr |-> <<>>, code |-> -1, signal |-> "", killed |-> FALSE]

\* line 46: exec(cmd, { timeout: timeout }, callback).  exec arms its kill
\* timer only for a timeout above 0.
Exec(cmd, timeout) ==
    [NoChild EXCEPT !.state = "running", !.cmd = cmd, !.timeout = timeout,
                    !.timer = IF timeout > 0 THEN "armed" ELSE "none"]

\* The error exec hands to the callback: none after exit code 0 with no
\* signal, otherwise Error("Command failed: <cmd>\n<stderr>").
ExecError(c) ==
    IF c.code = 0 /\ c.signal = "" THEN NoError
    ELSE JsError(<<"Command failed: ">> \o c.cmd \o <<NL>> \o Flatten(c.stderr))

\* Settle looking at the error stream before the error
Settle_StderrFirst(error, stdout, stderr) ==
    IF stderr # <<>>
    THEN [state |-> "rejected", value |-> JsString(<<"Error in output: ">> \o stderr)]
    ELSE IF error # NoError
    THEN [state |-> "rejected",
          value |-> JsString(<<"Execution error: ">> \o error.message)]
    ELSE [state |-> "resolved", value |-> JsString(stdout)]

\* lines 46-58: the callback.  The error is looked at first, then the error
\* stream, and only then is the promise resolved with the output.
Settle(error, stdout, stderr) ==
    IF error # NoError
    THEN [state |-> "rejected",
          value |-> JsString(<<"Execution error: ">> \o error.message)]
    ELSE IF stderr # <<>>
    THEN [state |-> "rejected", value |-> JsString(<<"Error in output: ">> \o stderr)]
    ELSE [state |-> "resolved", value |-> JsString(stdout)]

Pending == [state |-> "pending", value |-> NoError]

---------------------------------------------------------------------------
(* TailscalePing.check, tailscale-ping.js lines 21-30. *)

\* line 28: throw new Error(`Error checking Tailscale ping: ${err}`)
Rethrow(err) == JsError(<<"Error checking Tailscale ping: ">> \o ErrToString(err))

\* CheckAfterAwait with a catch that records DOWN and returns
CheckAfterAwait_Swallow(p, hb) ==
    IF p.state = "rejected"
    THEN [hb |-> [hb EXCEPT !.status = DOWN], kind |-> "returned", err |-> NoError,
          scanned |-> 0]
    ELSE LET r == ParseTailscaleOutput(p.value.message, hb)
         IN  IF r.threw
             THEN [hb |-> [r.hb EXCEPT !.status = DOWN], kind |-> "returned",
                   err |-> NoError, scanned |-> r.scanned]
             ELSE [hb |-> r.hb, kind |-> "returned", err |-> NoError,
                   scanned |-> r.scanned]

\* lines 22-29, from the point where the awaited promise is settled: the
\* heartbeat after the call and how the call ends
CheckAfterAwait(p, hb) ==
    IF p.state = "rejected"
    THEN [hb |-> hb, kind |-> "raised", err |-> Rethrow(p.value), scanned |-> 0]
    ELSE LET r == ParseTailscaleOutput(p.value.message, hb)
         IN  IF r.threw
             THEN [hb |-> r.hb, kind |-> "raised", err |-> Rethrow(r.err),
                   scanned |-> r.scanned]
             ELSE [hb |-> r.hb, kind |-> "returned", err |-> NoError,
                   scanned |-> r.scanned]

---------------------------------------------------------------------------
(* server/model/heartbeat.js: the JSON views of a heartbeat bean.  A bean  *)
(* is the record of its columns; a JavaScript object literal is the record *)
(* of its properties.                                                      *)

\* toJSON(): every column, the message as it is
toJSON(this) ==
    [monitorID |-> this.monitor_id,
     status |-> this.status,
     time |-> this.time,
     msg |-> this.msg,
     ping |-> this.ping,
     important |-> this.important,
     duration |-> this.duration]

toPublicJSON_KeepMsg(this) ==
    [status |-> this.status, time |-> this.time, msg |-> this.msg, ping |-> this.ping]

toPublicJSON_AllFields(this) == [toJSON(this) EXCEPT !.msg = <<>>]

\* toPublicJSON(): four properties, the message replaced by ""
toPublicJSON(this) ==
    [status |-> this.status,
     time |-> this.time,
     msg |-> <<>>,
     ping |-> this.ping]

\* no view taken yet
NoView == [none |-> TRUE]

\* the heartbeat beans the views are taken of
Beans ==
    [monitor_id : {1, 2},
     status : {DOWN, UP, PENDING, MAINTENANCE},
     time : {"2023-09-01 10:00:00.000"},
     msg : {<<>>, Expand("old")},
     ping : {Null, Num(5)},
     important : BOOLEAN,
     duration : {0, 60}]

\* no heartbeat is being serialized
HeartbeatRest ==
    /\ bean = [monitor_id |-> 1, status |-> PENDING, time |-> "2023-09-01 10:00:00.000",
               msg |-> <<>>, ping |-> Null, important |-> FALSE, duration |-> 0]
    /\ fullView = NoView
    /\ publicView = NoView

---------------------------------------------------------------------------
(* The process and the settings.  A string-valued variable of the          *)
(* environment or setting that is not set is "", which is falsy as         *)
(* undefined and null are; a boolean setting is true, false or null.       *)

JsTrue == [tag |-> "bool", n |-> 1]

JsFalse == [tag |-> "bool", n |-> 0]

\* if (v): whether a value is truthy
Truthy(v) ==
    CASE v.tag = "bool" -> v.n = 1
      [] v.tag = "num" -> v.n # 0
      [] OTHER -> FALSE

\* Settings.get(key): the stored value, null when there is none
SettingsGet(key) == settings[key]

\* Settings.set(key, value): the settings with the value stored
SettingsSet(key, value) == [settings EXCEPT ![key] = value]

\* the process right after it started, with nothing set
ProcessRest ==
    /\ env = [TZ |-> "", UPTIME_KUMA_IS_CONTAINER |-> ""]
    /\ settings = [serverTimezone |-> "", nscd |-> Null, trustProxy |-> Null]

---------------------------------------------------------------------------
(* server/uptime-kuma-server.js: the timezone. *)

\* the names dayjs can format a date in
ValidZones == {"UTC", "Europe/Berlin", "Asia/Tokyo", "America/Lima"}

\* a name it cannot
NoSuchZone == "Mars/Olympus"

\* checkTimezone(timezone): the formatting is tried, and its failure is
\* thrown again as Error("Invalid timezone:" + timezone)
checkTimezone(timezone) ==
    IF timezone \in ValidZones THEN NoError
    ELSE JsError(<<"Invalid timezone:", timezone>>)

getTimezone_EnvUnchecked(TZ, serverTimezone, guessed) ==
    IF TZ # "" THEN TZ
    ELSE IF serverTimezone # "" /\ checkTimezone(serverTimezone) = NoError
         THEN serverTimezone
    ELSE IF guessed # "" /\ checkTimezone(guessed) = NoError THEN guessed
    ELSE "UTC"

\* getTimezone(): process.env.TZ, then the setting serverTimezone, then the
\* guess of dayjs, each taken if it is set and checkTimezone does not throw
\* for it (the throw is caught and logged); "UTC" at the end.
getTimezone(TZ, serverTimezone, guessed) ==
    IF TZ # "" /\ checkTimezone(TZ) = NoError THEN TZ
    ELSE IF serverTimezone # "" /\ checkTimezone(serverTimezone) = NoError
         THEN serverTimezone
    ELSE IF guessed # ""
         THEN IF checkTimezone(guessed) = NoError THEN guessed ELSE "UTC"
    ELSE "UTC"

setTimezoneStart_PersistFirst(timezone) ==
    [err |-> checkTimezone(timezone), settings |-> SettingsSet("serverTimezone", timezone)]

\* setTimezone(timezone) up to its await: checkTimezone throws, or the
\* setting is stored
setTimezoneStart(timezone) ==
    LET err == checkTimezone(timezone)
    IN  IF err # NoError THEN [err |-> err, settings |-> settings]
        ELSE [err |-> NoError, settings |-> SettingsSet("serverTimezone", timezone)]

\* no getTimezone() call yet
NotGot == [called |-> FALSE, value |-> "", TZ |-> "", serverTimezone |-> "", guessed |-> ""]

\* no setTimezone() call yet
NoTzCall ==
    [at |-> "none", timezone |-> "", err |-> NoError,
     stored0 |-> "", default0 |-> "", TZ0 |-> ""]

\* no timezone work is under way
TimezoneRest ==
    /\ guess = ""
    /\ tzDefault = ""
    /\ tzGot = NotGot
    /\ tzCall = NoTzCall

---------------------------------------------------------------------------
(* server/uptime-kuma-server.js: the instance, start() and stop().  An     *)
(* object is the number `new` gave it, counting from 1; 0 is null.         *)

\* the names the constructor enters in monitorTypeList
TypeNames == {"real-browser", "tailscale-ping", "dns"}

\* the arguments of the server: no SSL key, a key and certificate that can
\* be read, a key file that cannot
ServerArgs == {"http", "https", "httpsUnreadable"}

\* new UptimeKumaServer(args): fs.readFileSync throws for a key file that
\* cannot be read, before anything is entered; otherwise the three checkers
\* are created and entered, each a new object.
Construct(args, st) ==
    IF args = "httpsUnreadable"
    THEN [st EXCEPT !.threw = TRUE, !.objects = st.objects + 1]
    ELSE [threw |-> FALSE,
          this |-> st.objects + 1,
          objects |-> st.objects + 4,
          monitorTypeList |->
              [t \in TypeNames |->
                  CASE t = "real-browser" -> st.objects + 2
                    [] t = "tailscale-ping" -> st.objects + 3
                    [] t = "dns" -> st.objects + 4],
          instance |-> st.instance]

getInstance_AlwaysNew(args, st) ==
    LET c == Construct(args, st)
    IN  IF c.threw THEN c ELSE [c EXCEPT !.instance = c.this]

\* getInstance(args): the instance is constructed if there is none yet
getInstance(args, st) ==
    IF st.instance = 0
    THEN LET c == Construct(args, st)
         IN  IF c.threw THEN c ELSE [c EXCEPT !.instance = c.this]
    ELSE st

\* the static fields, as getInstance and the constructor read them
Statics ==
    [threw |-> FALSE, this |-> 0, objects |-> objects,
     monitorTypeList |-> monitorTypeList, instance |-> instance]

nscdEnabled_TrueOnly(enable) == Truthy(enable)

\* the condition of start() and stop(): enable || enable === null
nscdEnabled(enable) == Truthy(enable) \/ enable = Null

\* the command startNSCDServices() and stopNSCDServices() run
ServiceCommand(op) == <<"sudo service nscd ", op>>

\* what the services functions log: log.info("services", ...)
ServiceLog(op, what) ==
    CASE what = "begin" /\ op = "start" -> "Starting nscd"
      [] what = "begin" /\ op = "stop" -> "Stopping nscd"
      [] what = "failed" /\ op = "start" -> "Failed to start nscd"
      [] what = "failed" /\ op = "stop" -> "Failed to stop nscd"

NSCDServices_NoCatch(op, ok) ==
    [failed |-> ~ok,
     log |-> <<ServiceLog(op, "begin")>>,
     ended |-> IF ok THEN "returned" ELSE "threw"]

\* startNSCDServices() and stopNSCDServices() in a container: the command
\* is run inside try, and what execSync throws is caught and logged
NSCDServices(op, ok) ==
    [failed |-> ~ok,
     log |-> IF ok THEN <<ServiceLog(op, "begin")>>
             ELSE <<ServiceLog(op, "begin"), ServiceLog(op, "failed")>>,
     ended |-> "returned"]

\* start() or stop(), whose command ends as `ok` says if it is run: the
\* setting is read; if it allows, the services function is called, which
\* runs the command in a container only.
StartOrStop(op, ok) ==
    LET enable == SettingsGet("nscd")
        called == nscdEnabled(enable)
        attempted == called /\ env.UPTIME_KUMA_IS_CONTAINER # ""
        r == NSCDServices(op, ok)
    IN  [op |-> op,
         enable |-> enable,
         container |-> env.UPTIME_KUMA_IS_CONTAINER # "",
         called |-> called,
         command |-> IF attempted THEN ServiceCommand(op) ELSE <<>>,
         failed |-> attempted /\ r.failed,
         log |-> IF attempted THEN r.log ELSE <<>>,
         ended |-> IF attempted THEN r.ended ELSE "returned"]

\* no start() or stop() call yet
NoNscdCall ==
    [op |-> "none", enable |-> Null, container |-> FALSE, called |-> FALSE,
     command |-> <<>>, failed |-> FALSE, log |-> <<>>, ended |-> "none"]

\* the process before the first getInstance()
LifecycleRest ==
    /\ instance = 0
    /\ monitorTypeList = [t \in TypeNames |-> 0]
    /\ objects = 0
    /\ returned = <<>>
    /\ service = "stopped"
    /\ nscdCall = NoNscdCall

---------------------------------------------------------------------------
(* server/uptime-kuma-server.js: the monitor list and the maintenance      *)
(* list.  A JavaScript object used as a map is the function from its keys  *)
(* to its values.                                                          *)

\* the users, who are the rooms of the socket server as well
Users == {1, 2}

\* the sockets connected: the user each logged in as, whose room it joined
Sockets == {"s1", "s2", "s3"}

SocketUser(socket) == IF socket = "s2" THEN 2 ELSE 1

\* the rooms a socket has joined
Joined(socket) == {SocketUser(socket)}

\* the rows table monitor may hold
MonitorPool ==
    { [id |-> 1, user_id |-> 1, weight |-> 2000, name |-> "a"],
      [id |-> 2, user_id |-> 2, weight |-> 2000, name |-> "b"],
      [id |-> 3, user_id |-> 1, weight |-> 1000, name |-> "c"] }

\* what table monitor holds: nothing, the monitors of one user, or all
MonitorTables ==
    {{}, MonitorPool} \cup {{m \in MonitorPool : m.user_id = userID} : userID \in Users}

\* monitor.toJSON(): the view of a monitor bean
MonitorToJSON(m) == [id |-> m.id, name |-> m.name, weight |-> m.weight]

\* R.find("monitor", " user_id = ? ORDER BY weight DESC, name", [userID])
FindMonitors(userID) == {m \in monitorRows : m.user_id = userID}

getMonitorJSONList_AllUsers(userID) ==
    [id \in {m.id : m \in monitorRows} |->
        MonitorToJSON(CHOOSE m \in monitorRows : m.id = id)]

\* getMonitorJSONList(userID): the object with, under the id of each monitor
\* found, its view
getMonitorJSONList(userID) ==
    LET monitorList == FindMonitors(userID)
    IN  [id \in {m.id : m \in monitorList} |->
            MonitorToJSON(CHOOSE m \in monitorList : m.id = id)]

\* the ids table maintenance may hold
MaintenanceIds == {1, 2}

\* how many loadMaintenanceList() calls are followed
MaxLoads == 2

Loads == 1..MaxLoads

\* a maintenance bean: the object made by the load that found the row
MaintenanceBean(load, id) == [load |-> load, id |-> id, title |-> <<"m", id>>]

\* no bean: what this.maintenanceList[id] is for an id that is not a key
NoBean == [load |-> 0, id |-> 0, title |-> <<>>]

\* maintenance.toJSON(): the view of a maintenance bean
MaintenanceToJSON(m) == [id |-> m.id, title |-> m.title]

\* the keys of this.maintenanceList
RegistryIds(list) == {id \in MaintenanceIds : list[id] # NoBean}

getMaintenanceJSONList_OwnOnly(userID, list) ==
    [id \in RegistryIds(list) \cap {userID} |-> MaintenanceToJSON(list[id])]

\* getMaintenanceJSONList(userID): the object with, under each key of
\* this.maintenanceList, the view of the bean
getMaintenanceJSONList(userID, list) ==
    [id \in RegistryIds(list) |-> MaintenanceToJSON(list[id])]

\* getMaintenance returning an entry of the list whatever the id
getMaintenance_AnyEntry(maintenanceID, list) ==
    IF RegistryIds(list) # {}
    THEN list[CHOOSE id \in RegistryIds(list) : TRUE]
    ELSE NoBean

\* getMaintenance(maintenanceID): the bean under the id, or null
getMaintenance(maintenanceID, list) ==
    IF list[maintenanceID] # NoBean THEN list[maintenanceID] ELSE NoBean

\* maintenance.run(server): the entry is started.  It is a new object each
\* time a row is loaded, and holds nothing of an entry started before it.
Run(maintenance, started) == started \cup {maintenance}

RECURSIVE LoadLoop(_, _, _)
\* the loop of loadMaintenanceList(): each bean found is stored under its
\* id and run
LoadLoop(load, found, st) ==
    IF found = {} THEN st
    ELSE LET id == CHOOSE i \in found : TRUE
             maintenance == MaintenanceBean(load, id)
         IN  LoadLoop(load, found \ {id},
                      [maintenanceList |-> [st.maintenanceList EXCEPT ![id] = maintenance],
                       running |-> Run(maintenance, st.running)])

loadMaintenanceList_Fresh(load, found, st) ==
    LoadLoop(load, found, [st EXCEPT !.maintenanceList = [id \in MaintenanceIds |-> NoBean]])

\* loadMaintenanceList() after its await of R.findAll
loadMaintenanceList(load, found, st) == LoadLoop(load, found, st)

\* io.to(room).emit(event, payload), and what the call returned
Emit(op, userID, room, event, payload, result) ==
    [op |-> op, userID |-> userID, room |-> room, event |-> event,
     payload |-> payload, returned |-> result]

\* sendMaintenanceListByUserID(userID): the list is built, emitted to the
\* room of the user and returned
sendMaintenanceListByUserID(userID) ==
    LET list == getMaintenanceJSONList(userID, maintenanceList)
    IN  Emit("sendMaintenanceListByUserID", userID, userID, "maintenanceList", list, list)

\* sendMonitorList(socket): the list of the socket's user is built, emitted
\* to the room of that user and returned
sendMonitorList(socket) ==
    LET list == getMonitorJSONList(SocketUser(socket))
    IN  Emit("sendMonitorList", SocketUser(socket), SocketUser(socket),
             "monitorList", list, list)

\* nothing sent yet
NotSent == Emit("none", 0, 0, "", <<>>, <<>>)

\* the sockets an emission reaches: those that joined its room
Reached == {socket \in Sockets : sent.room \in Joined(socket)}

\* no getMaintenance() call yet
NoGet == [called |-> FALSE, maintenanceID |-> 0, returned |-> NoBean]

\* a load not yet called
NoLoad == [at |-> "idle", found |-> {}]

\* the lists of a server that has no row to show
ListsRest ==
    /\ monitorRows = {}
    /\ maintenanceRows = {}
    /\ loads = [k \in Loads |-> NoLoad]
    /\ maintenanceList = [id \in MaintenanceIds |-> NoBean]
    /\ running = {}
    /\ sent = NotSent
    /\ got = NoGet

---------------------------------------------------------------------------
(* server/uptime-kuma-server.js: the address of a client.  An address or a *)
(* header is a string or undefined; in a string, the characters the code   *)
(* looks at stand alone and the digits of an address are one piece.        *)

Undefined == [tag |-> "undefined", s |-> <<>>]

Str(s) == [tag |-> "string", s |-> s]

\* the prefix of an IPv4 address mapped into IPv6
MappedPrefix == <<":", ":", "f", "f", "f", "f", ":">>

RECURSIVE TrimEnd(_)
TrimEnd(s) ==
    IF s # <<>> /\ s[Len(s)] \in WhiteSpace THEN TrimEnd(SubSeq(s, 1, Len(s) - 1)) ELSE s

\* String.prototype.trim
Trim(s) == TrimEnd(SkipWhite(s))

\* clientIP.replace(/^::ffff:/, ""): the prefix is taken off once, if the
\* string starts with it
StripMapped(s) ==
    IF Len(s) >= Len(MappedPrefix) /\ SubSeq(s, 1, Len(MappedPrefix)) = MappedPrefix
    THEN SubSeq(s, Len(MappedPrefix) + 1, Len(s))
    ELSE s

getClientIP_HeadersAlways(c, trustProxy) ==
    LET clientIP0 == IF c.remoteAddress = Undefined THEN <<>> ELSE c.remoteAddress.s
        first == IF c.forwardedFor.tag = "string"
                 THEN Trim(Split(c.forwardedFor.s, <<",">>)[1])
                 ELSE <<>>
    IN  IF first # <<>> THEN first
        ELSE IF c.realIp.tag = "string" /\ c.realIp.s # <<>> THEN c.realIp.s
        ELSE StripMapped(clientIP0)

\* getClientIP(socket), with what Settings.get("trustProxy") gave: the
\* remote address, "" if undefined; if the proxy is trusted, the first entry
\* of x-forwarded-for, trimmed, or else x-real-ip, or else the remote
\* address without the prefix; if not, the remote address without the prefix.
\* (a || b takes b when a is "", null or undefined.)
getClientIP(c, trustProxy) ==
    LET clientIP0 == IF c.remoteAddress = Undefined THEN <<>> ELSE c.remoteAddress.s
        first == IF c.forwardedFor.tag = "string"
                 THEN Trim(Split(c.forwardedFor.s, <<",">>)[1])
                 ELSE <<>>
    IN  IF Truthy(trustProxy)
        THEN IF first # <<>> THEN first
             ELSE IF c.realIp.tag = "string" /\ c.realIp.s # <<>> THEN c.realIp.s
             ELSE StripMapped(clientIP0)
        ELSE StripMapped(clientIP0)

\* the remote addresses of the connections
RemoteAddresses ==
    {Undefined, Str(<<"10.0.0.1">>), Str(MappedPrefix \o <<"10.0.0.1">>), Str(<<":", ":", "1">>)}

\* the values of the header x-forwarded-for
ForwardedFors ==
    {Undefined, Str(<<>>), Str(<<"1.2.3.4">>),
     Str(<<" ", "1.2.3.4", " ", ",", " ", "5.6.7.8">>),
     Str(<<",", "5.6.7.8">>),
     Str(MappedPrefix \o <<"1.2.3.4">>)}

\* the values of the header x-real-ip
RealIps == {Undefined, Str(<<>>), Str(<<"7.7.7.7">>), Str(MappedPrefix \o <<"7.7.7.7">>)}

Conns == [remoteAddress : RemoteAddresses, forwardedFor : ForwardedFors, realIp : RealIps]

\* no getClientIP() call yet
NoClientIP == [called |-> FALSE, value |-> <<>>]

\* no client has connected
ClientRest ==
    /\ conn = [remoteAddress |-> Undefined, forwardedFor |-> Undefined, realIp |-> Undefined]
    /\ clientIP = NoClientIP

---------------------------------------------------------------------------
(* The inputs. *)

\* The calls of check(): a monitor and the heartbeat its caller pre-set.  The
\* interval is read only to set the timeout and the heartbeat only by the
\* parser, so the two are varied together.
Calls ==
    { [monitor |-> [hostname |-> Expand("h1"), interval |-> 10],
       heartbeat |-> [status |-> DOWN, ping |-> Null, msg |-> <<>>]],
      [monitor |-> [hostname |-> Expand("h2"), interval |-> 20],
       heartbeat |-> [status |-> PENDING, ping |-> Num(7), msg |-> Expand("old")]] }

\* Two calls of check() on the one TailscalePing instance, under way at the
\* same time: call k is for monitor k, with the heartbeat made for it.
CallIds == {1, 2}

\* the monitor and the heartbeat of call k
CallOf(k) == CHOOSE call \in Calls : call.monitor.interval = 10 * k

\* a call not yet made
NoRun(k) ==
    [pc |-> "idle",
     monitor |-> CallOf(k).monitor,
     heartbeat |-> CallOf(k).heartbeat,
     child |-> NoChild,
     promise |-> Pending,
     outcome |-> [kind |-> "none", err |-> NoError, scanned |-> 0]]

\* the ways the child of a call writes its output and ends
Endings ==
    [stdout : {<<>>, <<"pong from", " in ", "5ms">>, <<"timed out">>, <<"pong from">>},
     stderr : {<<>>, <<"x">>},
     how : {"exit 0", "exit 1", "killed"}]

\* the child, ended the way e
ChildEnded(c, e) ==
    [c EXCEPT !.state = "exited",
              !.stdout = e.stdout,
              !.stderr = e.stderr,
              !.code = CASE e.how = "exit 0" -> 0
                         [] e.how = "exit 1" -> 1
                         [] e.how = "killed" -> c.code,
              !.timer = IF e.how = "killed" THEN "fired" ELSE c.timer,
              !.killed = e.how = "killed",
              !.signal = IF e.how = "killed" THEN "SIGTERM" ELSE ""]

\* check(monitor, heartbeat) of call k up to its await
StartCall(k, rs) ==
    [rs EXCEPT ![k].pc = "awaitExec",
               ![k].child = Exec(Command(rs[k].monitor.hostname),
                                 RunTimeout(rs[k].monitor.interval))]

\* the callback of exec for call k
SettleCall(k, rs) ==
    [rs EXCEPT ![k].pc = "settled",
               ![k].promise = Settle(ExecError(rs[k].child),
                                     Flatten(rs[k].child.stdout),
                                     Flatten(rs[k].child.stderr))]

\* ResumeCall with the heartbeat kept in one place for all calls, the one of
\* the call made last
ResumeCall_SharedHeartbeat(k, rs) ==
    LET r == CheckAfterAwait(rs[k].promise, rs[2].heartbeat)
    IN  [[rs EXCEPT ![k].pc = "done",
                    ![k].outcome = [kind |-> r.kind, err |-> r.err, scanned |-> r.scanned]]
            EXCEPT ![2].heartbeat = r.hb]

\* check() of call k after its await: the output is parsed into the
\* heartbeat that was passed to this call
ResumeCall(k, rs) ==
    LET r == CheckAfterAwait(rs[k].promise, rs[k].heartbeat)
    IN  [rs EXCEPT ![k].pc = "done",
                   ![k].heartbeat = r.hb,
                   ![k].outcome = [kind |-> r.kind, err |-> r.err, scanned |-> r.scanned]]

\* no call is under way
RunsRest == runs = [k \in CallIds |-> NoRun(k)]

---------------------------------------------------------------------------
(* The state machine. *)

\* the checker before check() is called
InitChecker ==
    /\ pc = "idle"
    /\ \E call \in Calls :
          /\ monitor = call.monitor
          /\ heartbeat = call.heartbeat
    /\ hb0 = heartbeat
    /\ child = NoChild
    /\ promise = Pending
    /\ outcome = [kind |-> "none", err |-> NoError, scanned |-> 0]

\* no check is under way
CheckerRest ==
    /\ InitChecker
    /\ monitor.interval = 10

Init ==
    /\ InitChecker
    /\ HeartbeatRest
    /\ ProcessRest
    /\ TimezoneRest
    /\ LifecycleRest
    /\ ClientRest
    /\ RunsRest
    /\ ListsRest

\* check() is called and runs up to its await: runTailscalePing has started
\* the child process.
CallCheck ==
    /\ pc = "idle"
    /\ pc' = "awaitExec"
    /\ hb0' = heartbeat
    /\ child' = Exec(Command(monitor.hostname), RunTimeout(monitor.interval))
    /\ promise' = Pending
    /\ UNCHANGED <<monitor, heartbeat, outcome, serverVars>>

\* the child writes a chunk to its standard output
ChildWrite ==
    /\ child.state = "running"
    /\ Len(child.stdout) < MaxOut
    /\ \E chunk \in Alphabet :
          child' = [child EXCEPT !.stdout = Append(@, chunk)]
    /\ UNCHANGED <<pc, monitor, heartbeat, hb0, promise, outcome, serverVars>>

\* the child writes to its standard error
ChildWriteErr ==
    /\ child.state = "running"
    /\ child.stderr = <<>>
    /\ child' = [child EXCEPT !.stderr = <<"x">>]
    /\ UNCHANGED <<pc, monitor, heartbeat, hb0, promise, outcome, serverVars>>

\* the child ends by itself, with an exit code
ChildExit ==
    /\ child.state = "running"
    /\ ~child.killed
    /\ \E code \in {0, 1} :
          child' = [child EXCEPT !.state = "exited", !.code = code]
    /\ UNCHANGED <<pc, monitor, heartbeat, hb0, promise, outcome, serverVars>>

\* the timeout passes while the child is still running: exec kills it
TimerExpire ==
    /\ child.state = "running"
    /\ child.timer = "armed"
    /\ child' = [child EXCEPT !.timer = "fired", !.killed = TRUE]
    /\ UNCHANGED <<pc, monitor, heartbeat, hb0, promise, outcome, serverVars>>

\* the killed child ends, by the signal
ChildKilled ==
    /\ child.state = "running"
    /\ child.killed
    /\ child' = [child EXCEPT !.state = "exited", !.signal = "SIGTERM"]
    /\ UNCHANGED <<pc, monitor, heartbeat, hb0, promise, outcome, serverVars>>

\* exec calls the callback, which settles the promise
ExecCallback ==
    /\ pc = "awaitExec"
    /\ child.state = "exited"
    /\ promise' = Settle(ExecError(child), Flatten(child.stdout), Flatten(child.stderr))
    /\ pc' = "settled"
    /\ UNCHANGED <<monitor, heartbeat, hb0, child, outcome, serverVars>>

\* check() goes on after its await, to its end
CheckResume ==
    /\ pc = "settled"
    /\ LET r == CheckAfterAwait(promise, heartbeat)
       IN  /\ heartbeat' = r.hb
           /\ outcome' = [kind |-> r.kind, err |-> r.err, scanned |-> r.scanned]
    /\ pc' = "done"
    /\ UNCHANGED <<monitor, hb0, child, promise, serverVars>>

Next ==
    \/ CallCheck
    \/ ChildWrite
    \/ ChildWriteErr
    \/ ChildExit
    \/ TimerExpire
    \/ ChildKilled
    \/ ExecCallback
    \/ CheckResume

Spec == Init /\ [][Next]_vars

---------------------------------------------------------------------------
(* The parser on every output of up to MaxOut chunks. *)

\* what a command that ended well can have printed
Outputs == UNION {[1..n -> Alphabet] : n \in 0..MaxOut}

\* check() at its await, when the command of a call has printed an output
\* and ended with exit code 0 and nothing on its standard error: the promise
\* is resolved with the output.  The call is the one whose caller has set
\* every field of the heartbeat, so that each write of the parser shows.
InitParse ==
    /\ pc = "settled"
    /\ monitor = CallOf(2).monitor
    /\ heartbeat = CallOf(2).heartbeat
    /\ hb0 = heartbeat
    /\ \E out \in Outputs :
          child = [Exec(Command(monitor.hostname), RunTimeout(monitor.interval))
                      EXCEPT !.state = "exited", !.stdout = out, !.code = 0]
    /\ promise = Settle(ExecError(child), Flatten(child.stdout), Flatten(child.stderr))
    /\ outcome = [kind |-> "none", err |-> NoError, scanned |-> 0]
    /\ HeartbeatRest
    /\ ProcessRest
    /\ TimezoneRest
    /\ LifecycleRest
    /\ ClientRest
    /\ RunsRest
    /\ ListsRest

\* check() hands the output to parseTailscaleOutput
NextParse == CheckResume

SpecParse == InitParse /\ [][NextParse]_vars

---------------------------------------------------------------------------
(* The views of a heartbeat. *)

InitHeartbeat ==
    /\ CheckerRest
    /\ bean \in Beans
    /\ fullView = NoView
    /\ publicView = NoView
    /\ ProcessRest
    /\ TimezoneRest
    /\ LifecycleRest
    /\ ClientRest
    /\ RunsRest
    /\ ListsRest

\* heartbeat.toJSON() is called
CallToJSON ==
    /\ fullView' = toJSON(bean)
    /\ UNCHANGED <<bean, publicView>>
    /\ UNCHANGED <<checkerVars, processVars, timezoneVars, lifecycleVars, listsVars,
                 clientVars, runs>>

\* heartbeat.toPublicJSON() is called
CallToPublicJSON ==
    /\ publicView' = toPublicJSON(bean)
    /\ UNCHANGED <<bean, fullView>>
    /\ UNCHANGED <<checkerVars, processVars, timezoneVars, lifecycleVars, listsVars,
                 clientVars, runs>>

NextHeartbeat ==
    \/ CallToJSON
    \/ CallToPublicJSON

SpecHeartbeat == InitHeartbeat /\ [][NextHeartbeat]_vars

---------------------------------------------------------------------------
(* The timezone. *)

\* the timezones setTimezone() is called with
TimezoneArgs == {"Asia/Tokyo", "UTC", NoSuchZone}

InitTimezone ==
    /\ CheckerRest
    /\ HeartbeatRest
    /\ \E TZ \in {"", "Europe/Berlin", NoSuchZone} :
          env = [TZ |-> TZ, UPTIME_KUMA_IS_CONTAINER |-> ""]
    /\ \E serverTimezone \in {"", "Asia/Tokyo", NoSuchZone} :
          settings = [serverTimezone |-> serverTimezone, nscd |-> Null, trustProxy |-> Null]
    /\ guess \in {"", "America/Lima", NoSuchZone}
    /\ tzDefault = ""
    /\ tzGot = NotGot
    /\ tzCall = NoTzCall
    /\ LifecycleRest
    /\ ClientRest
    /\ RunsRest
    /\ ListsRest

\* getTimezone() is called
CallGetTimezone ==
    /\ tzGot' = [called |-> TRUE,
                 value |-> getTimezone(env.TZ, SettingsGet("serverTimezone"), guess),
                 TZ |-> env.TZ,
                 serverTimezone |-> SettingsGet("serverTimezone"),
                 guessed |-> guess]
    /\ UNCHANGED <<guess, tzDefault, tzCall>>
    /\ UNCHANGED <<checkerVars, heartbeatVars, processVars, lifecycleVars, listsVars,
                 clientVars, runs>>

\* setTimezone(timezone) is called and runs up to its await, or throws
CallSetTimezone ==
    /\ tzCall.at # "awaitSet"
    /\ \E timezone \in TimezoneArgs :
          LET r == setTimezoneStart(timezone)
          IN  /\ settings' = r.settings
              /\ tzCall' = [at |-> IF r.err = NoError THEN "awaitSet" ELSE "threw",
                            timezone |-> timezone,
                            err |-> r.err,
                            stored0 |-> settings.serverTimezone,
                            default0 |-> tzDefault,
                            TZ0 |-> env.TZ]
    /\ UNCHANGED <<env, guess, tzDefault, tzGot>>
    /\ UNCHANGED <<checkerVars, heartbeatVars, lifecycleVars, listsVars,
                 clientVars, runs>>

\* setTimezone() goes on after its await, to its end
SetTimezoneResume ==
    /\ tzCall.at = "awaitSet"
    /\ env' = [env EXCEPT !.TZ = tzCall.timezone]
    /\ tzDefault' = tzCall.timezone
    /\ tzCall' = [tzCall EXCEPT !.at = "returned"]
    /\ UNCHANGED <<settings, guess, tzGot>>
    /\ UNCHANGED <<checkerVars, heartbeatVars, lifecycleVars, listsVars,
                 clientVars, runs>>

NextTimezone ==
    \/ CallGetTimezone
    \/ CallSetTimezone
    \/ SetTimezoneResume

SpecTimezone == InitTimezone /\ [][NextTimezone]_vars

---------------------------------------------------------------------------
(* The instance, start() and stop(). *)

\* how many getInstance() calls are followed
MaxCalls == 4

InitLifecycle ==
    /\ CheckerRest
    /\ HeartbeatRest
    /\ \E container \in {"", "1"} :
          env = [TZ |-> "", UPTIME_KUMA_IS_CONTAINER |-> container]
    /\ \E nscd \in {Null, JsTrue, JsFalse} :
          settings = [serverTimezone |-> "", nscd |-> nscd, trustProxy |-> Null]
    /\ TimezoneRest
    /\ LifecycleRest
    /\ ClientRest
    /\ RunsRest
    /\ ListsRest

\* UptimeKumaServer.getInstance(args) is called
CallGetInstance ==
    /\ Len(returned) < MaxCalls
    /\ \E args \in ServerArgs :
          LET r == getInstance(args, Statics)
          IN  /\ instance' = r.instance
              /\ monitorTypeList' = r.monitorTypeList
              /\ objects' = r.objects
              /\ returned' = Append(returned,
                                    [threw |-> r.threw,
                                     value |-> IF r.threw THEN 0 ELSE r.instance])
    /\ UNCHANGED <<service, nscdCall>>
    /\ UNCHANGED <<checkerVars, heartbeatVars, processVars, timezoneVars, listsVars,
                 clientVars, runs>>

\* server.start() is called
CallStart ==
    /\ instance # 0
    /\ \E ok \in BOOLEAN :
          /\ nscdCall' = StartOrStop("start", ok)
          /\ service' = IF nscdCall'.command # <<>> /\ ok THEN "running" ELSE service
    /\ UNCHANGED <<instance, monitorTypeList, objects, returned>>
    /\ UNCHANGED <<checkerVars, heartbeatVars, processVars, timezoneVars, listsVars,
                 clientVars, runs>>

\* server.stop() is called
CallStop ==
    /\ instance # 0
    /\ \E ok \in BOOLEAN :
          /\ nscdCall' = StartOrStop("stop", ok)
          /\ service' = IF nscdCall'.command # <<>> /\ ok THEN "stopped" ELSE service
    /\ UNCHANGED <<instance, monitorTypeList, objects, returned>>
    /\ UNCHANGED <<checkerVars, heartbeatVars, processVars, timezoneVars, listsVars,
                 clientVars, runs>>

NextLifecycle ==
    \/ CallGetInstance
    \/ CallStart
    \/ CallStop

SpecLifecycle == InitLifecycle /\ [][NextLifecycle]_vars

---------------------------------------------------------------------------
(* The monitor list and the maintenance list. *)

InitLists ==
    /\ CheckerRest
    /\ HeartbeatRest
    /\ ProcessRest
    /\ TimezoneRest
    /\ LifecycleRest
    /\ ClientRest
    /\ RunsRest
    /\ monitorRows \in MonitorTables
    /\ maintenanceRows = {}
    /\ loads = [k \in Loads |-> NoLoad]
    /\ maintenanceList = [id \in MaintenanceIds |-> NoBean]
    /\ running = {}
    /\ sent = NotSent
    /\ got = NoGet

\* a row is added to table maintenance, or deleted from it, by whoever
\* manages the maintenance windows
RowsChange ==
    /\ \E id \in MaintenanceIds :
          maintenanceRows' = IF id \in maintenanceRows
                             THEN maintenanceRows \ {id}
                             ELSE maintenanceRows \cup {id}
    /\ UNCHANGED <<monitorRows, loads, maintenanceList, running, sent, got>>
    /\ UNCHANGED <<checkerVars, heartbeatVars, processVars, timezoneVars, lifecycleVars,
                 clientVars, runs>>

\* loadMaintenanceList() is called and runs up to its await: R.findAll has
\* read the rows
CallLoadMaintenanceList ==
    /\ \E k \in Loads :
          /\ loads[k].at = "idle"
          /\ \A j \in 1..(k - 1) : loads[j].at # "idle"
          /\ loads' = [loads EXCEPT ![k] = [at |-> "query", found |-> maintenanceRows]]
    /\ UNCHANGED <<monitorRows, maintenanceRows, maintenanceList, running, sent, got>>
    /\ UNCHANGED <<checkerVars, heartbeatVars, processVars, timezoneVars, lifecycleVars,
                 clientVars, runs>>

\* loadMaintenanceList() goes on after its await, to its end
LoadResume ==
    /\ \E k \in Loads :
          /\ loads[k].at = "query"
          /\ LET r == loadMaintenanceList(k, loads[k].found,
                                          [maintenanceList |-> maintenanceList,
                                           running |-> running])
             IN  /\ maintenanceList' = r.maintenanceList
                 /\ running' = r.running
          /\ loads' = [loads EXCEPT ![k].at = "done"]
    /\ UNCHANGED <<monitorRows, maintenanceRows, sent, got>>
    /\ UNCHANGED <<checkerVars, heartbeatVars, processVars, timezoneVars, lifecycleVars,
                 clientVars, runs>>

\* sendMonitorList(socket) is called
CallSendMonitorList ==
    /\ \E socket \in Sockets :
          sent' = sendMonitorList(socket)
    /\ UNCHANGED <<monitorRows, maintenanceRows, loads, maintenanceList, running, got>>
    /\ UNCHANGED <<checkerVars, heartbeatVars, processVars, timezoneVars, lifecycleVars,
                 clientVars, runs>>

\* sendMaintenanceList(socket) is called
CallSendMaintenanceList ==
    /\ \E socket \in Sockets :
          sent' = [sendMaintenanceListByUserID(SocketUser(socket))
                      EXCEPT !.op = "sendMaintenanceList"]
    /\ UNCHANGED <<monitorRows, maintenanceRows, loads, maintenanceList, running, got>>
    /\ UNCHANGED <<checkerVars, heartbeatVars, processVars, timezoneVars, lifecycleVars,
                 clientVars, runs>>

\* sendMaintenanceListByUserID(userID) is called
CallSendMaintenanceListByUserID ==
    /\ \E userID \in Users :
          sent' = sendMaintenanceListByUserID(userID)
    /\ UNCHANGED <<monitorRows, maintenanceRows, loads, maintenanceList, running, got>>
    /\ UNCHANGED <<checkerVars, heartbeatVars, processVars, timezoneVars, lifecycleVars,
                 clientVars, runs>>

\* getMaintenance(maintenanceID) is called
CallGetMaintenance ==
    /\ \E maintenanceID \in MaintenanceIds :
          got' = [called |-> TRUE,
                  maintenanceID |-> maintenanceID,
                  returned |-> getMaintenance(maintenanceID, maintenanceList)]
    /\ UNCHANGED <<monitorRows, maintenanceRows, loads, maintenanceList, running, sent>>
    /\ UNCHANGED <<checkerVars, heartbeatVars, processVars, timezoneVars, lifecycleVars,
                 clientVars, runs>>

NextLists ==
    \/ RowsChange
    \/ CallLoadMaintenanceList
    \/ LoadResume
    \/ CallSendMonitorList
    \/ CallSendMaintenanceList
    \/ CallSendMaintenanceListByUserID
    \/ CallGetMaintenance

SpecLists == InitLists /\ [][NextLists]_vars

---------------------------------------------------------------------------
(* The address of a client. *)

InitClientIP ==
    /\ CheckerRest
    /\ HeartbeatRest
    /\ env = [TZ |-> "", UPTIME_KUMA_IS_CONTAINER |-> ""]
    /\ \E trustProxy \in {Null, JsTrue, JsFalse} :
          settings = [serverTimezone |-> "", nscd |-> Null, trustProxy |-> trustProxy]
    /\ TimezoneRest
    /\ LifecycleRest
    /\ ListsRest
    /\ conn \in Conns
    /\ clientIP = NoClientIP
    /\ RunsRest

\* getClientIP(socket) is called
CallGetClientIP ==
    /\ clientIP' = [called |-> TRUE, value |-> getClientIP(conn, SettingsGet("trustProxy"))]
    /\ UNCHANGED <<conn, runs>>
    /\ UNCHANGED <<checkerVars, heartbeatVars, processVars, timezoneVars, lifecycleVars,
                   listsVars>>

NextClientIP == CallGetClientIP

SpecClientIP == InitClientIP /\ [][NextClientIP]_vars

---------------------------------------------------------------------------
(* Two calls of check() at a time. *)

InitConcurrent ==
    /\ CheckerRest
    /\ HeartbeatRest
    /\ ProcessRest
    /\ TimezoneRest
    /\ LifecycleRest
    /\ ClientRest
    /\ RunsRest
    /\ ListsRest

\* check() is called for a monitor, and runs up to its await
RunsCallCheck ==
    /\ \E k \in CallIds :
          /\ runs[k].pc = "idle"
          /\ runs' = StartCall(k, runs)
    /\ UNCHANGED <<checkerVars, heartbeatVars, processVars, timezoneVars, lifecycleVars,
                   listsVars, clientVars>>

\* the child of a call writes its output and ends, or is killed at the
\* timeout
RunsChildEnd ==
    /\ \E k \in CallIds, e \in Endings :
          /\ runs[k].child.state = "running"
          /\ e.how = "killed" => runs[k].child.timer = "armed"
          /\ runs' = [runs EXCEPT ![k].child = ChildEnded(@, e)]
    /\ UNCHANGED <<checkerVars, heartbeatVars, processVars, timezoneVars, lifecycleVars,
                   listsVars, clientVars>>

\* exec calls the callback of a call, which settles its promise
RunsExecCallback ==
    /\ \E k \in CallIds :
          /\ runs[k].pc = "awaitExec"
          /\ runs[k].child.state = "exited"
          /\ runs' = SettleCall(k, runs)
    /\ UNCHANGED <<checkerVars, heartbeatVars, processVars, timezoneVars, lifecycleVars,
                   listsVars, clientVars>>

\* check() of a call goes on after its await, to its end
RunsCheckResume ==
    /\ \E k \in CallIds :
          /\ runs[k].pc = "settled"
          /\ runs' = ResumeCall(k, runs)
    /\ UNCHANGED <<checkerVars, heartbeatVars, processVars, timezoneVars, lifecycleVars,
                   listsVars, clientVars>>

NextConcurrent ==
    \/ RunsCallCheck
    \/ RunsChildEnd
    \/ RunsExecCallback
    \/ RunsCheckResume

SpecConcurrent == InitConcurrent /\ [][NextConcurrent]_vars

---------------------------------------------------------------------------
(* What the properties below are stated in. *)

RECURSIVE LinesFrom(_, _)
\* the lines of a text written in chunks: the texts between its line breaks
LinesFrom(chunks, cur) ==
    IF chunks = <<>> THEN <<cur>>
    ELSE IF Head(chunks) = NL
         THEN <<cur>> \o LinesFrom(Tail(chunks), <<>>)
         ELSE LinesFrom(Tail(chunks), cur \o Expand(Head(chunks)))

\* the lines of the standard output
OutLines == LinesFrom(child.stdout, <<>>)

\* check() has ended and had handed the standard output to the parser
Parsed == pc = "done" /\ promise.state = "resolved"

HasNonBlank == \E i \in DOMAIN OutLines : OutLines[i] # <<>>

\* the index of the first line that is not blank
FirstNonBlank ==
    CHOOSE i \in DOMAIN OutLines :
        OutLines[i] # <<>> /\ \A j \in 1..(i - 1) : OutLines[j] = <<>>

FirstLine == OutLines[FirstNonBlank]

Has(line, marker) == Includes(line, Expand(marker))

\* check() raised the failure the parser throws as `<prefix>"<line>"`
RaisedWith(prefix, line) ==
    /\ outcome.kind = "raised"
    /\ outcome.err =
          [name |-> "Error",
           message |-> <<"Error checking Tailscale ping: ", "Error", ": ", prefix, "\"">>
                       \o line \o <<"\"">>]

\* the text of line from position i on
From(line, i) == SubSeq(line, i, Len(line))

\* line holds " in " at position i, directly followed by digits and "ms"
MsAt(line, i) ==
    /\ OccursAt(line, Expand(" in "), i)
    /\ LeadingDigits(From(line, i + 4)) # <<>>
    /\ OccursAt(From(line, i + 4), <<"m", "s">>,
                Len(LeadingDigits(From(line, i + 4))) + 1)

\* the number N of the `<N>ms` that follows the " in " at position i
MsValue(line, i) == DecimalValue(LeadingDigits(From(line, i + 4)), 0)

\* the " in " at position i is the first one of the line
FirstIn(line, i) == \A j \in 1..(i - 1) : ~OccursAt(line, Expand(" in "), j)

---------------------------------------------------------------------------
(* The properties. *)

C2_FailureLeavesHeartbeatUntouched ==
    (pc = "done" /\ outcome.kind = "raised") => heartbeat = hb0

\* C3, as stated: an output with a line that contains "timed out" makes the
\* parser raise "Ping timed out" with that line.
C3_AnyTimedOutLine ==
    (Parsed /\ \E i \in DOMAIN OutLines : Has(OutLines[i], "timed out")) =>
        \E i \in DOMAIN OutLines :
            Has(OutLines[i], "timed out") /\ RaisedWith("Ping timed out: ", OutLines[i])

\* C3, amended: when the first non-blank line of the output contains
\* "timed out" and not "pong from", the parser raises "Ping timed out" with
\* that line, however many blank lines come before it.
C3_FirstLineTimedOut ==
    (Parsed /\ HasNonBlank /\ Has(FirstLine, "timed out")
            /\ ~Has(FirstLine, "pong from")) =>
        RaisedWith("Ping timed out: ", FirstLine)

\* a "timed out" line after two blank lines
C3_Witness ==
    /\ Parsed /\ HasNonBlank /\ FirstNonBlank >= 3
    /\ Has(FirstLine, "timed out") /\ ~Has(FirstLine, "pong from")
    /\ outcome.kind = "raised"

\* C4, as stated: an output with a line that contains "no matching peer"
\* makes the parser raise the unreachable-peer failure with that line, and
\* one with a line that contains "is local Tailscale IP" the self-target
\* failure with that line.
C4_AnyPeerOrLocalLine ==
    Parsed =>
        /\ (\E i \in DOMAIN OutLines : Has(OutLines[i], "no matching peer")) =>
              \E i \in DOMAIN OutLines :
                  /\ Has(OutLines[i], "no matching peer")
                  /\ RaisedWith("Nonexistant or inaccessible due to ACLs: ", OutLines[i])
        /\ (\E i \in DOMAIN OutLines : Has(OutLines[i], "is local Tailscale IP")) =>
              \E i \in DOMAIN OutLines :
                  /\ Has(OutLines[i], "is local Tailscale IP")
                  /\ RaisedWith("Tailscale only works if used on other machines: ",
                                OutLines[i])

\* C4, amended: when the first non-blank line contains "no matching peer" and
\* neither "pong from" nor "timed out", the parser raises the unreachable-peer
\* failure with that line; when it contains "is local Tailscale IP" and none
\* of "pong from", "timed out", "no matching peer", the parser raises the
\* self-target failure with that line.
C4_FirstLinePeerOrLocal ==
    (Parsed /\ HasNonBlank /\ ~Has(FirstLine, "pong from")
            /\ ~Has(FirstLine, "timed out")) =>
        /\ Has(FirstLine, "no matching peer") =>
              RaisedWith("Nonexistant or inaccessible due to ACLs: ", FirstLine)
        /\ (Has(FirstLine, "is local Tailscale IP")
                /\ ~Has(FirstLine, "no matching peer")) =>
              RaisedWith("Tailscale only works if used on other machines: ", FirstLine)

\* a local-IP line after a blank line, with a "no matching peer" line after it
C4_Witness ==
    /\ Parsed /\ HasNonBlank /\ FirstNonBlank = 2
    /\ Has(FirstLine, "is local Tailscale IP")
    /\ ~Has(FirstLine, "no matching peer")
    /\ Len(OutLines) = 3 /\ Has(OutLines[3], "no matching peer")
    /\ outcome.kind = "raised"

\* the one line of the output that is not blank, when there is exactly one
OnlyNonBlank(i) ==
    /\ i \in DOMAIN OutLines
    /\ OutLines[i] # <<>>
    /\ \A j \in DOMAIN OutLines : j # i => OutLines[j] = <<>>

NoMarker(line) ==
    /\ ~Has(line, "pong from")
    /\ ~Has(line, "timed out")
    /\ ~Has(line, "no matching peer")
    /\ ~Has(line, "is local Tailscale IP")

\* C5: when the output is blank lines and exactly one other line, which
\* contains none of the markers, then wherever that line is the parser raises
\* "Unexpected output" with exactly that line, and the heartbeat is unchanged.
C5_SingleUnexpectedLine ==
    Parsed =>
        \A i \in DOMAIN OutLines :
            (OnlyNonBlank(i) /\ NoMarker(OutLines[i])) =>
                /\ RaisedWith("Unexpected output: ", OutLines[i])
                /\ heartbeat = hb0

\* an unexpected line between two blank lines
C5_Witness ==
    /\ Parsed
    /\ Len(OutLines) = 3
    /\ OnlyNonBlank(2) /\ NoMarker(OutLines[2])
    /\ outcome.kind = "raised"

\* C6: when every line of the output is blank (the empty output too), the
\* parser reads every line, check() returns, and status, ping and msg of the
\* heartbeat are what the caller pre-set.
C6_BlankOnlyOutput ==
    (Parsed /\ ~HasNonBlank) =>
        /\ outcome.kind = "returned"
        /\ outcome.scanned = Len(OutLines)
        /\ heartbeat = hb0

\* three blank lines, after a call that pre-set a ping and a msg
C6_Witness ==
    /\ Parsed /\ ~HasNonBlank
    /\ Len(OutLines) = 3
    /\ outcome.kind = "returned"
    /\ hb0.ping = Num(7)

C8_TimeoutRaisesTimeoutKind ==
    (pc = "done" /\ child.timer = "fired") =>
        /\ outcome.kind = "raised"
        /\ \E k \in DOMAIN outcome.err.message :
              outcome.err.message[k] = "Ping timed out: "

\* the process ended with an error: an exit code other than 0, or a signal
ProcessFailed == child.code # 0 \/ child.signal # ""

\* C9: once the callback has run, the promise is rejected with "Execution
\* error" when the process failed, whatever the error stream holds; else
\* rejected with "Error in output: " and the error stream's text when that is
\* not empty, whatever the output holds; else resolved with the output.  In
\* the two failure cases check() raises and the heartbeat is unchanged.
C9_ClassificationOrder ==
    pc \in {"settled", "done"} =>
        /\ ProcessFailed =>
              /\ promise.state = "rejected"
              /\ promise.value.message[1] = "Execution error: "
        /\ (~ProcessFailed /\ child.stderr # <<>>) =>
              /\ promise.state = "rejected"
              /\ promise.value.message = <<"Error in output: ">> \o Flatten(child.stderr)
        /\ (~ProcessFailed /\ child.stderr = <<>>) =>
              /\ promise.state = "resolved"
              /\ promise.value.message = Flatten(child.stdout)
        /\ (pc = "done" /\ (ProcessFailed \/ child.stderr # <<>>)) =>
              /\ outcome.kind = "raised"
              /\ outcome.scanned = 0
              /\ heartbeat = hb0

\* exit code 0, text on the error stream and a full pong line on the output
C9_Witness ==
    /\ pc = "done"
    /\ child.code = 0 /\ child.signal = ""
    /\ child.stderr # <<>>
    /\ child.stdout = <<"pong from", " in ", "5ms">>
    /\ outcome.kind = "raised"
    /\ heartbeat = hb0

\* C10: check() raises exactly when running the command or parsing its output
\* failed, with the text of that failure in its own; and the only status the
\* checker ever writes to the heartbeat is UP.
C10_FailuresRaisedOnlyUpWritten ==
    /\ heartbeat.status # hb0.status => heartbeat.status = UP
    /\ pc = "done" =>
          /\ promise.state = "rejected" =>
                /\ outcome.kind = "raised"
                /\ outcome.err.message =
                      <<"Error checking Tailscale ping: ">> \o promise.value.message
          /\ promise.state = "resolved" =>
                LET r == ParseTailscaleOutput(promise.value.message, hb0)
                IN  /\ r.threw <=> outcome.kind = "raised"
                    /\ r.threw =>
                          outcome.err.message =
                              <<"Error checking Tailscale ping: ", r.err.name, ": ">>
                              \o r.err.message

\* check() raised a failure of the parser, for a heartbeat pre-set to PENDING
C10_Witness ==
    /\ Parsed
    /\ outcome.kind = "raised"
    /\ hb0.status = PENDING
    /\ heartbeat.status = PENDING

---------------------------------------------------------------------------
(* The views of a heartbeat. *)

\* C11: whatever the message of a heartbeat, toPublicJSON() yields msg = ""
\* and toJSON() yields the message as it is; neither call changes the
\* heartbeat.
C11_PublicBlanksFullKeeps ==
    /\ [](/\ publicView # NoView => publicView.msg = <<>>
          /\ fullView # NoView => fullView.msg = bean.msg)
    /\ [][bean' = bean]_vars

\* both views were taken of a heartbeat that has a message
C11_Witness ==
    /\ bean.msg = Expand("old")
    /\ publicView # NoView
    /\ publicView.msg = <<>>
    /\ fullView # NoView
    /\ fullView.msg = Expand("old")

\* C12 as stated: the public view has the properties and the values of the
\* full view, but for msg, which is "".
C12_PublicSameFieldsAsFull ==
    publicView # NoView =>
        /\ DOMAIN publicView = DOMAIN toJSON(bean)
        /\ \A f \in DOMAIN publicView \ {"msg"} : publicView[f] = toJSON(bean)[f]
        /\ publicView.msg = <<>>

\* C12: the public view has the four properties status, time, msg and ping
\* and no other; status, time and ping are those of the full view and msg
\* is "".
C12_PublicIsFourFields ==
    publicView # NoView =>
        /\ DOMAIN publicView = {"status", "time", "msg", "ping"}
        /\ \A f \in {"status", "time", "ping"} : publicView[f] = toJSON(bean)[f]
        /\ publicView.msg = <<>>

\* the public view was taken of an important heartbeat with a duration, and
\* shows neither
C12_Witness ==
    /\ publicView # NoView
    /\ bean.important
    /\ bean.duration = 60
    /\ bean.monitor_id = 2
    /\ DOMAIN publicView \cap {"monitorID", "important", "duration"} = {}

---------------------------------------------------------------------------
(* The ping of the heartbeat. *)

\* C13 as stated: after a call of check(), a ping written by the checker
\* stands in the heartbeat only if the call returned with status UP and the
\* ping is a number, the milliseconds read from the `pong from` line; it is
\* never a non-number and never written by a call that raised.
C13_PingOnlyFromMeasurement ==
    (pc = "done" /\ heartbeat.ping # hb0.ping) =>
        /\ outcome.kind = "returned"
        /\ heartbeat.status = UP
        /\ heartbeat.ping.tag = "num"
        /\ Has(FirstLine, "pong from")

---------------------------------------------------------------------------
(* The timezone. *)

\* the candidates a getTimezone() call read, in the order it tries them
Candidates == <<tzGot.TZ, tzGot.serverTimezone, tzGot.guessed>>

\* a candidate that is set and passes checkTimezone
Usable(i) == Candidates[i] # "" /\ checkTimezone(Candidates[i]) = NoError

C15_SetTimezoneChecksThenPersists ==
    /\ tzCall.at # "none" =>
          (tzCall.at = "threw" <=> checkTimezone(tzCall.timezone) # NoError)
    /\ tzCall.at = "threw" =>
          /\ tzCall.err = JsError(<<"Invalid timezone:", tzCall.timezone>>)
          /\ settings.serverTimezone = tzCall.stored0
          /\ tzDefault = tzCall.default0
          /\ env.TZ = tzCall.TZ0
    /\ tzCall.at = "awaitSet" =>
          /\ settings.serverTimezone = tzCall.timezone
          /\ tzDefault = tzCall.default0
          /\ env.TZ = tzCall.TZ0
    /\ tzCall.at = "returned" =>
          /\ settings.serverTimezone = tzCall.timezone
          /\ tzDefault = tzCall.timezone
          /\ env.TZ = tzCall.timezone

\* setTimezone() has thrown for an invalid timezone, after an earlier call
\* had set UTC, which is still the setting and the default
C15_Witness ==
    /\ tzCall.at = "threw"
    /\ tzCall.timezone = NoSuchZone
    /\ settings.serverTimezone = "UTC"
    /\ tzDefault = "UTC"
    /\ env.TZ = "UTC"

---------------------------------------------------------------------------
(* The monitor list. *)

\* the user a monitor belongs to
OwnerOf(id) == (CHOOSE m \in MonitorPool : m.id = id).user_id

\* C16: the list sendMonitorList builds for a user holds only monitors of
\* that user and is emitted to the room of that user only, so a socket that
\* joined only the room of another user receives no monitor of this one.
C16_MonitorListIsolation ==
    sent.op = "sendMonitorList" =>
        /\ \A id \in DOMAIN sent.payload : OwnerOf(id) = sent.userID
        /\ sent.room = sent.userID
        /\ \A socket \in Sockets :
              sent.userID \notin Joined(socket) =>
                  \/ socket \notin Reached
                  \/ \A id \in DOMAIN sent.payload : OwnerOf(id) # sent.userID

\* the list of user 1, who has two monitors, was sent while user 2 has one
\* too: it holds the two and reached the sockets of user 1 only
C16_Witness ==
    /\ monitorRows = MonitorPool
    /\ sent.op = "sendMonitorList"
    /\ sent.userID = 1
    /\ DOMAIN sent.payload = {1, 3}
    /\ Reached = {"s1", "s3"}

---------------------------------------------------------------------------
(* The instance. *)

\* the getInstance() calls that returned, and those that threw
Returns == {i \in DOMAIN returned : ~returned[i].threw}

Throws == DOMAIN returned \ Returns

\* how many times the constructor ran to its end: it creates four objects
\* when it does and one when it throws
Constructions == (objects - Cardinality(Throws)) \div 4

\* C17: after any getInstance() calls the server was constructed once, and
\* every call returned that instance; the entries `real-browser`,
\* `tailscale-ping` and `dns` of monitorTypeList each hold one checker, which
\* is never replaced.
C17_SingleInstance ==
    /\ [](/\ Constructions <= 1
          /\ Returns # {} =>
                /\ Constructions = 1
                /\ instance # 0
                /\ \A i \in Returns : returned[i].value = instance
          /\ instance # 0 =>
                /\ \A t \in TypeNames : monitorTypeList[t] # 0
                /\ Cardinality({monitorTypeList[t] : t \in TypeNames}) = 3)
    /\ [][\A t \in TypeNames :
             monitorTypeList[t] # 0 => monitorTypeList'[t] = monitorTypeList[t]]_vars

\* a first getInstance() threw in the constructor, and the three calls after
\* it returned the one instance
C17_Witness ==
    /\ Len(returned) = 4
    /\ returned[1].threw
    /\ Returns = {2, 3, 4}
    /\ returned[2].value = instance
    /\ returned[4].value = instance
    /\ Constructions = 1
    /\ monitorTypeList["tailscale-ping"] # 0

---------------------------------------------------------------------------
(* The maintenance list. *)

\* C18: when loadMaintenanceList() has ended, every maintenance the query
\* returned is in this.maintenanceList under its own id and was run by that
\* load; and an id that is once a key of this.maintenanceList stays one.
C18_LoadRegistersAndRuns ==
    /\ [](\A k \in Loads :
             loads[k].at = "done" =>
                 \A id \in loads[k].found :
                     /\ maintenanceList[id] # NoBean
                     /\ maintenanceList[id].id = id
                     /\ MaintenanceBean(k, id) \in running)
    /\ [][\A id \in MaintenanceIds :
             maintenanceList[id] # NoBean => maintenanceList'[id] # NoBean]_vars

\* a load found two rows; both were deleted and a second load found none:
\* the two entries of the first load are still there, and were run by it
C18_Witness ==
    /\ loads[1].at = "done"
    /\ loads[1].found = {1, 2}
    /\ loads[2].at = "done"
    /\ loads[2].found = {}
    /\ maintenanceRows = {}
    /\ RegistryIds(maintenanceList) = {1, 2}
    /\ running = {MaintenanceBean(1, 1), MaintenanceBean(1, 2)}

\* the snapshot of the maintenance list as it is now: under each id that is
\* a key, the view of the entry
Snapshot ==
    [id \in {i \in MaintenanceIds : maintenanceList[i] # NoBean} |->
        MaintenanceToJSON(maintenanceList[id])]

\* C19: getMaintenanceJSONList yields the same object for every user: its
\* keys are the ids in this.maintenanceList and its values the toJSON() views
\* of the entries; and sendMaintenanceListByUserID returns the object it
\* emits as the event `maintenanceList`.
C19_MaintenanceSnapshotGlobal ==
    /\ [](\A userID \in Users :
             getMaintenanceJSONList(userID, maintenanceList) = Snapshot)
    /\ [][(sent' # sent /\ sent'.op \in {"sendMaintenanceList", "sendMaintenanceListByUserID"}) =>
             /\ sent'.event = "maintenanceList"
             /\ sent'.payload = Snapshot
             /\ sent'.returned = sent'.payload
             /\ sent'.room = sent'.userID]_vars

\* with both ids in this.maintenanceList, the list was sent for user 2 and
\* holds both
C19_Witness ==
    /\ {i \in MaintenanceIds : maintenanceList[i] # NoBean} = {1, 2}
    /\ sent.op = "sendMaintenanceListByUserID"
    /\ sent.userID = 2
    /\ sent.event = "maintenanceList"
    /\ DOMAIN sent.payload = {1, 2}
    /\ sent.returned = sent.payload

---------------------------------------------------------------------------
(* start() and stop(). *)

\* C20: start() calls for the nscd service to be started, and stop() for it
\* to be stopped, exactly when the setting nscd is true or not set, never
\* when it is false; and the command is run only in a container.
C20_NscdGate ==
    nscdCall.op # "none" =>
        /\ nscdCall.enable = settings.nscd
        /\ nscdCall.called <=> (nscdCall.enable = JsTrue \/ nscdCall.enable = Null)
        /\ nscdCall.enable = JsFalse => (~nscdCall.called /\ nscdCall.command = <<>>)
        /\ nscdCall.command # <<>> <=>
              (nscdCall.called /\ env.UPTIME_KUMA_IS_CONTAINER # "")
        /\ nscdCall.command # <<>> =>
              nscdCall.command = <<"sudo service nscd ", nscdCall.op>>

\* start() was called in a container with the setting not set: it ran the
\* command, and the service runs
C20_Witness ==
    /\ nscdCall.op = "start"
    /\ settings.nscd = Null
    /\ env.UPTIME_KUMA_IS_CONTAINER = "1"
    /\ nscdCall.called
    /\ nscdCall.command = <<"sudo service nscd ", "start">>
    /\ ~nscdCall.failed
    /\ service = "running"

\* C21: a failure of the nscd command in start() or stop() is caught and
\* logged and goes no further: the call returns whether the command
\* succeeds or fails.
C21_ServiceFailureSwallowed ==
    nscdCall.op # "none" =>
        /\ nscdCall.ended = "returned"
        /\ nscdCall.failed =>
              /\ nscdCall.command # <<>>
              /\ nscdCall.log = <<ServiceLog(nscdCall.op, "begin"),
                                  ServiceLog(nscdCall.op, "failed")>>
        /\ (nscdCall.command # <<>> /\ ~nscdCall.failed) =>
              nscdCall.log = <<ServiceLog(nscdCall.op, "begin")>>

\* stop() ran the command in a container, the command failed, and stop()
\* returned with the failure logged; the service still runs
C21_Witness ==
    /\ nscdCall.op = "stop"
    /\ nscdCall.command = <<"sudo service nscd ", "stop">>
    /\ nscdCall.failed
    /\ nscdCall.ended = "returned"
    /\ nscdCall.log = <<"Stopping nscd", "Failed to stop nscd">>
    /\ service = "running"

---------------------------------------------------------------------------
(* The address of a client. *)

\* whether a string starts with the prefix of a mapped IPv4 address
StartsMapped(s) ==
    Len(s) >= Len(MappedPrefix) /\ SubSeq(s, 1, Len(MappedPrefix)) = MappedPrefix

\* C22 as stated: whatever the connection and the setting trustProxy, the
\* address getClientIP returns never starts with `::ffff:`, whether it came
\* from the remote address, from x-forwarded-for or from x-real-ip.
C22_NeverMappedPrefix == clientIP.called => ~StartsMapped(clientIP.value)

\* the first entry of the header x-forwarded-for, trimmed; "" if there is no
\* header
FirstForwarded ==
    IF conn.forwardedFor = Undefined THEN <<>>
    ELSE Trim(Split(conn.forwardedFor.s, <<",">>)[1])

\* the remote address without the prefix; "" if there is none
RemoteStripped ==
    IF conn.remoteAddress = Undefined THEN <<>> ELSE StripMapped(conn.remoteAddress.s)

\* C26: with trustProxy off, getClientIP does not depend on the headers
\* x-forwarded-for and x-real-ip: connections with the same remote address
\* get the same result whatever their headers.  With trustProxy on, the
\* first entry of x-forwarded-for comes first, then x-real-ip, then the
\* remote address; a header that is missing or empty is passed over.
C26_HeadersOnlyWhenTrusted ==
    clientIP.called =>
        /\ ~Truthy(settings.trustProxy) =>
              /\ clientIP.value = RemoteStripped
              /\ \A c \in Conns :
                    c.remoteAddress = conn.remoteAddress =>
                        getClientIP(c, settings.trustProxy) = clientIP.value
        /\ Truthy(settings.trustProxy) =>
              /\ FirstForwarded # <<>> => clientIP.value = FirstForwarded
              /\ (FirstForwarded = <<>> /\ conn.realIp.s # <<>>) =>
                    clientIP.value = conn.realIp.s
              /\ (FirstForwarded = <<>> /\ conn.realIp.s = <<>>) =>
                    clientIP.value = RemoteStripped

\* with trustProxy set to false, a connection that carries both headers got
\* its remote address, without the prefix
C26_Witness ==
    /\ settings.trustProxy = JsFalse
    /\ conn.remoteAddress = Str(MappedPrefix \o <<"10.0.0.1">>)
    /\ conn.forwardedFor = Str(<<"1.2.3.4">>)
    /\ conn.realIp = Str(<<"7.7.7.7">>)
    /\ clientIP.called
    /\ clientIP.value = <<"10.0.0.1">>

\* check() called with the heartbeat as it was before the call, after a
\* command that printed line and nothing else
LineAlone(line) ==
    CheckAfterAwait([promise EXCEPT !.value.message = line], hb0)

\* C23: the first non-blank line of the output decides the outcome.  The
\* lines before it are passed over, the markers are tested on it in the order
\* "pong from", "timed out", "no matching peer", "is local Tailscale IP",
\* anything else, and the loop ends on it: the result of check() and the
\* heartbeat are what they are when the output is that line alone, whatever
\* lines follow it.
C23_FirstNonBlankLineDecides ==
    Parsed =>
        LET lines == OutLines
            first == CHOOSE i \in DOMAIN lines :
                         lines[i] # <<>> /\ \A j \in 1..(i - 1) : lines[j] = <<>>
            line == lines[first]
            alone == LineAlone(line)
        IN  (\E i \in DOMAIN lines : lines[i] # <<>>) =>
                /\ outcome.scanned = first
                /\ heartbeat = alone.hb
                /\ outcome.kind = alone.kind
                /\ outcome.err = alone.err
                /\ IF Has(line, "pong from")
                   THEN /\ heartbeat.status = UP
                        /\ outcome.kind = "returned" => heartbeat.msg = line
                        /\ outcome.kind = "raised" =>
                              outcome.err.message[2] = "TypeError"
                   ELSE /\ heartbeat = hb0
                        /\ IF Has(line, "timed out")
                           THEN RaisedWith("Ping timed out: ", line)
                           ELSE IF Has(line, "no matching peer")
                           THEN RaisedWith("Nonexistant or inaccessible due to ACLs: ",
                                           line)
                           ELSE IF Has(line, "is local Tailscale IP")
                           THEN RaisedWith(
                                    "Tailscale only works if used on other machines: ",
                                    line)
                           ELSE RaisedWith("Unexpected output: ", line)

\* a "pong from" line with a "timed out" line after it: check() returned
C23_Witness ==
    /\ Parsed /\ HasNonBlank
    /\ Has(FirstLine, "pong from")
    /\ \E i \in DOMAIN OutLines : i > FirstNonBlank /\ Has(OutLines[i], "timed out")
    /\ outcome.kind = "returned"
    /\ heartbeat.status = UP

\* check() called alone for the monitor of call k, with a child that ends
\* the way the child of call k did
Alone(k) ==
    CheckAfterAwait(Settle(ExecError(runs[k].child),
                           Flatten(runs[k].child.stdout),
                           Flatten(runs[k].child.stderr)),
                    CallOf(k).heartbeat)

\* C24: two calls of check() on the one TailscalePing instance, for two
\* monitors with a heartbeat each, in any interleaving of their steps: a call
\* that has ended has the result and has left its heartbeat as the same call
\* alone does, from the output and the end of its own command; the heartbeat
\* of a call that has not got to its parser is as its caller made it; and the
\* command of a call is the one for its own monitor.
C24_ConcurrentCallsIndependent ==
    \A k \in CallIds :
        /\ runs[k].pc # "idle" =>
              /\ runs[k].child.cmd = Command(CallOf(k).monitor.hostname)
              /\ runs[k].child.timeout = RunTimeout(CallOf(k).monitor.interval)
        /\ runs[k].pc # "done" =>
              /\ runs[k].heartbeat = CallOf(k).heartbeat
              /\ runs[k].outcome.kind = "none"
        /\ runs[k].pc = "done" =>
              /\ runs[k].heartbeat = Alone(k).hb
              /\ runs[k].outcome.kind = Alone(k).kind
              /\ runs[k].outcome.err = Alone(k).err

\* both calls have ended, the first one with a pong and the second one with
\* a failure: each heartbeat holds what its own call gave it
C24_Witness ==
    /\ runs[1].pc = "done" /\ runs[2].pc = "done"
    /\ runs[1].outcome.kind = "returned"
    /\ runs[1].heartbeat = [status |-> UP, ping |-> Num(5),
                            msg |-> Flatten(<<"pong from", " in ", "5ms">>)]
    /\ runs[2].outcome.kind = "raised"
    /\ runs[2].child.stdout = <<"timed out">>
    /\ runs[2].heartbeat = CallOf(2).heartbeat

\* a step in which a loadMaintenanceList() call goes through its loop
LoadStep == \E k \in Loads : loads[k].at = "query" /\ loads'[k].at = "done"

\* a step in which one of sendMonitorList, sendMaintenanceList,
\* sendMaintenanceListByUserID (with the getMonitorJSONList or
\* getMaintenanceJSONList call in it) or getMaintenance is called
QueryStep == sent' # sent \/ got' # got

\* C25: this.maintenanceList changes only in the loop of
\* loadMaintenanceList(); a call of getMaintenance, getMaintenanceJSONList,
\* sendMaintenanceList, sendMaintenanceListByUserID, sendMonitorList or
\* getMonitorJSONList leaves its keys and the entries under them as they
\* were; and getMaintenance(id) returns the entry under id when id is a key,
\* and null when it is not.
C25_OnlyLoadMutatesRegistry ==
    /\ [][maintenanceList' # maintenanceList => LoadStep]_vars
    /\ [][QueryStep =>
             /\ RegistryIds(maintenanceList') = RegistryIds(maintenanceList)
             /\ maintenanceList' = maintenanceList
             /\ running' = running]_vars
    /\ [][got' # got =>
             IF got'.maintenanceID \in RegistryIds(maintenanceList)
             THEN got'.returned = maintenanceList[got'.maintenanceID]
             ELSE got'.returned = NoBean]_vars

\* with one entry in the list, the monitor list was sent and getMaintenance
\* was called for the id that is not a key: it returned null and the entry
\* is still there
C25_Witness ==
    /\ loads[1].at = "done"
    /\ maintenanceList = [id \in MaintenanceIds |->
                             IF id = 1 THEN MaintenanceBean(1, 1) ELSE NoBean]
    /\ sent.op = "sendMonitorList"
    /\ got.called
    /\ got.maintenanceID = 2
    /\ got.returned = NoBean

\* the entries started for an id and never stopped
StartedFor(id) == {m \in running : m.id = id}

\* C27: whatever loadMaintenanceList() calls were made, one after the other
\* or with their queries under way at the same time, at most one entry is
\* started for a maintenance id, and the entry that this.maintenanceList
\* holds under an id is the started one.
C27_OneStartedEntryPerId ==
    \A id \in MaintenanceIds :
        /\ Cardinality(StartedFor(id)) <= 1
        /\ maintenanceList[id] # NoBean => StartedFor(id) = {maintenanceList[id]}

====
